---- MODULE Spec2Model ----
(***************************************************************************)
(* Model of src/main.cpp: the entry-point routine `main`, a straight-line  *)
(* sequence of calls on one rerun::RecordingStream.  One action per        *)
(* statement of main; `pc` is the source line of the next statement.       *)
(* The external client is observed through `calls`, the sequence of calls  *)
(* main has made on it, and through `timeline`, the ambient markers the    *)
(* session carries between calls.                                          *)
(*                                                                         *)
(* The double literals 1.0, 2.0 and 5.0 are integer valued and are kept    *)
(* as the integers 1, 2 and 5; the timeline a value is stored under        *)
(* ("testtime" or "seq") tells the floating-point marker from the integer  *)
(* one.                                                                    *)
(***************************************************************************)
EXTENDS Integers, Sequences, FiniteSets, TLC

VARIABLES pc, exitStatus, rec, timeline, calls, fileExists

vars == <<pc, exitStatus, rec, timeline, calls, fileExists>>

(* ---------- values ---------- *)

\* exitStatus while the process is still running
Running == -1

\* a timeline that has not been set on the session yet
Unset == -1

\* status std::exit is called with by exit_on_failure()
EXIT_FAILURE == 1

\* results the external client can hand back from spawn()
SpawnResults == {"ok", "spawn_failed"}

\* results the external client can produce for log_file_from_path,
\* depending on whether ./example.urdf is there
LogResults(exists) ==
    IF exists THEN {"ok", "malformed_file", "transport_failure"}
              ELSE {"missing_file", "transport_failure"}

(* ---------- the calls main makes ---------- *)

\* line 5: rerun::RecordingStream("urdf_from_cpp")
RecordingStream(line, next, app_id) ==
    /\ pc = line /\ exitStatus = Running
    /\ rec' = app_id
    /\ calls' = Append(calls, [op |-> "RecordingStream", line |-> line,
                               app_id |-> app_id])
    /\ pc' = next
    /\ UNCHANGED <<exitStatus, timeline, fileExists>>

\* variant of spawn_exit_on_failure: the spawn result is dropped and main
\* goes on whatever it was
spawn_ignore_failure(line, next) ==
    /\ pc = line /\ exitStatus = Running
    /\ \E res \in SpawnResults :
         calls' = Append(calls, [op |-> "spawn", line |-> line, res |-> res])
    /\ pc' = next
    /\ UNCHANGED <<exitStatus, rec, timeline, fileExists>>

\* line 6: rec.spawn().exit_on_failure(): the process exits with
\* EXIT_FAILURE when spawn() returned an error, and goes on otherwise
spawn_exit_on_failure(line, next) ==
    /\ pc = line /\ exitStatus = Running
    /\ \E res \in SpawnResults :
         /\ calls' = Append(calls, [op |-> "spawn", line |-> line,
                                    res |-> res])
         /\ IF res = "ok"
              THEN pc' = next /\ exitStatus' = exitStatus
              ELSE pc' = pc /\ exitStatus' = EXIT_FAILURE
    /\ UNCHANGED <<rec, timeline, fileExists>>

\* rec.set_time_seconds(name, seconds)
set_time_seconds(line, next, name, seconds) ==
    /\ pc = line /\ exitStatus = Running
    /\ timeline' = [timeline EXCEPT ![name] = seconds]
    /\ calls' = Append(calls, [op |-> "set_time_seconds", line |-> line,
                               name |-> name, value |-> seconds])
    /\ pc' = next
    /\ UNCHANGED <<exitStatus, rec, fileExists>>

\* rec.set_time_sequence(name, sequence_nr)
set_time_sequence(line, next, name, sequence_nr) ==
    /\ pc = line /\ exitStatus = Running
    /\ timeline' = [timeline EXCEPT ![name] = sequence_nr]
    /\ calls' = Append(calls, [op |-> "set_time_sequence", line |-> line,
                               name |-> name, value |-> sequence_nr])
    /\ pc' = next
    /\ UNCHANGED <<exitStatus, rec, fileExists>>

\* variant of log_file_from_path: the result is checked as the spawn
\* result is, and a failure ends the process
log_file_from_path_exit_on_failure(line, next, filepath, entity_path_prefix) ==
    /\ pc = line /\ exitStatus = Running
    /\ \E res \in LogResults(fileExists) :
         /\ calls' = Append(calls, [op |-> "log_file_from_path", line |-> line,
                                    filepath |-> filepath,
                                    entity |-> entity_path_prefix,
                                    time |-> timeline["testtime"],
                                    seq |-> timeline["seq"],
                                    res |-> res])
         /\ IF res = "ok"
              THEN pc' = next /\ exitStatus' = exitStatus
              ELSE pc' = pc /\ exitStatus' = EXIT_FAILURE
    /\ UNCHANGED <<rec, timeline, fileExists>>

\* rec.log_file_from_path(filepath, entity_path_prefix): the data is logged
\* at the ambient markers; main discards whatever the call reports
log_file_from_path(line, next, filepath, entity_path_prefix) ==
    /\ pc = line /\ exitStatus = Running
    /\ \E res \in LogResults(fileExists) :
         calls' = Append(calls, [op |-> "log_file_from_path", line |-> line,
                                 filepath |-> filepath,
                                 entity |-> entity_path_prefix,
                                 time |-> timeline["testtime"],
                                 seq |-> timeline["seq"],
                                 res |-> res])
    /\ pc' = next
    /\ UNCHANGED <<exitStatus, rec, timeline, fileExists>>

\* a statement left out: control passes it without a call being made
skip(line, next) ==
    /\ pc = line /\ exitStatus = Running
    /\ pc' = next
    /\ UNCHANGED <<exitStatus, rec, timeline, calls, fileExists>>

\* return status: the process ends with that status
return(line, next, status) ==
    /\ pc = line /\ exitStatus = Running
    /\ exitStatus' = status
    /\ pc' = next
    /\ UNCHANGED <<rec, timeline, calls, fileExists>>

(* ---------- main, statement by statement ---------- *)

L5_RecordingStream == RecordingStream(5, 6, "urdf_from_cpp")

\* variant of line 6: a failed spawn is tried again instead of exiting
L6_spawn_retry ==
    /\ pc = 6 /\ exitStatus = Running
    /\ \E res \in SpawnResults :
         /\ calls' = Append(calls, [op |-> "spawn", line |-> 6, res |-> res])
         /\ pc' = IF res = "ok" THEN 8 ELSE 6
    /\ UNCHANGED <<exitStatus, rec, timeline, fileExists>>

L6_spawn == spawn_exit_on_failure(6, 8)

L8_set_time_seconds == set_time_seconds(8, 9, "testtime", 1)

\* variant of line 9: the sequence marker is not set before the first log
L9_no_sequence == skip(9, 11)

L9_set_time_sequence == set_time_sequence(9, 11, "seq", 1)

\* variant of line 11: a failed first log ends the process
L11_log_exit_on_failure ==
    log_file_from_path_exit_on_failure(11, 13, "./example.urdf", "my_urdf/urdf")

L11_log_file_from_path ==
    log_file_from_path(11, 13, "./example.urdf", "my_urdf/urdf")

L13_set_time_seconds == set_time_seconds(13, 14, "testtime", 2)

\* variant of line 14: the sequence marker is not advanced
L14_no_sequence == skip(14, 16)

L14_set_time_sequence == set_time_sequence(14, 16, "seq", 2)

\* variant of line 16: another spelling of the file path
L16_other_path ==
    log_file_from_path(16, 18, "example.urdf", "my_urdf/urdf")

L16_log_file_from_path ==
    log_file_from_path(16, 18, "./example.urdf", "my_urdf/urdf")

\* variant of line 18: the time marker goes to 3.0 instead of 5.0
L18_seconds_3 == set_time_seconds(18, 19, "testtime", 3)

L18_set_time_seconds == set_time_seconds(18, 19, "testtime", 5)

\* variant of line 19: the sequence marker goes to 3 instead of 5
L19_sequence_3 == set_time_sequence(19, 21, "seq", 3)

L19_set_time_sequence == set_time_sequence(19, 21, "seq", 5)

\* variant of line 21: a failed last log ends the process
L21_log_exit_on_failure ==
    log_file_from_path_exit_on_failure(21, 23, "./example.urdf", "my_urdf/urdf")

L21_log_file_from_path ==
    log_file_from_path(21, 23, "./example.urdf", "my_urdf/urdf")

L23_return == return(23, 24, 0)

Init ==
    /\ pc = 5
    /\ exitStatus = Running
    /\ rec = ""
    /\ timeline = [n \in {"testtime", "seq"} |-> Unset]
    /\ calls = << >>
    /\ fileExists \in BOOLEAN

Next ==
    \/ L5_RecordingStream
    \/ L6_spawn
    \/ L8_set_time_seconds
    \/ L9_set_time_sequence
    \/ L11_log_file_from_path
    \/ L13_set_time_seconds
    \/ L14_set_time_sequence
    \/ L16_log_file_from_path
    \/ L18_set_time_seconds
    \/ L19_set_time_sequence
    \/ L21_log_file_from_path
    \/ L23_return

Spec == Init /\ [][Next]_vars

\* main is one sequential thread and every call it makes returns, so a
\* statement that can run does run
FairSpec == Init /\ [][Next]_vars /\ WF_vars(Next)

(* ---------- observations on the calls made so far ---------- *)

Terminated == exitStatus # Running

CallsOf(op) == SelectSeq(calls, LAMBDA c : c.op = op)

LogCalls == CallsOf("log_file_from_path")

\* indices in calls of the calls of one operation
IndicesOf(op) == {i \in 1..Len(calls) : calls[i].op = op}

SpawnOk == \E i \in IndicesOf("spawn") : calls[i].res = "ok"

SpawnFailed == \E i \in IndicesOf("spawn") : calls[i].res # "ok"

\* the values passed to the calls of one marker-set operation, in order
ValuesSet(op) == [i \in 1..Len(CallsOf(op)) |-> CallsOf(op)[i].value]

IsPrefix(s, t) ==
    /\ Len(s) <= Len(t)
    /\ \A i \in 1..Len(s) : s[i] = t[i]

\* number of calls of op strictly between positions lo and hi of calls
CountBetween(op, lo, hi) ==
    Cardinality({i \in IndicesOf(op) : lo < i /\ i < hi})

(* ---------- C1 ---------- *)

\* C1: if the viewer spawn fails, the process has terminated with a
\* non-zero exit status, no log_file_from_path call was made and no
\* timeline marker was set.
C1_SpawnFailureIsFatal ==
    SpawnFailed =>
        /\ Terminated
        /\ exitStatus # 0
        /\ Len(LogCalls) = 0
        /\ Len(CallsOf("set_time_seconds")) = 0
        /\ Len(CallsOf("set_time_sequence")) = 0
        /\ \A n \in DOMAIN timeline : timeline[n] = Unset

C1_Witness == SpawnFailed /\ exitStatus = EXIT_FAILURE

(* ---------- C2 ---------- *)

\* C2: when the file exists and the viewer spawned, main reaches its end
\* and the process exits with status 0.
C2_SuccessExitsZero ==
    (SpawnOk /\ fileExists) ~> (pc = 24 /\ exitStatus = 0)

C2_Witness == SpawnOk /\ fileExists /\ pc = 24 /\ exitStatus = 0

(* ---------- C3 ---------- *)

FixedPairs == << <<1, 1>>, <<2, 2>>, <<5, 5>> >>

\* the k-th pair of values set: k-th time value with k-th sequence value
PairsSet ==
    [k \in 1..Len(CallsOf("set_time_sequence")) |->
        << ValuesSet("set_time_seconds")[k],
           ValuesSet("set_time_sequence")[k] >>]

\* the ambient pair in effect at the k-th log call
PairsAtLogs == [k \in 1..Len(LogCalls) |-> <<LogCalls[k].time, LogCalls[k].seq>>]

\* C3: after a successful spawn the marker pairs set follow the literal
\* list (1.0,1), (2.0,2), (5.0,5) in order, the k-th log call is made under
\* the k-th pair, and the whole list has been set when main returns.
C3_MarkerSequence ==
    SpawnOk =>
        /\ IsPrefix(PairsSet, FixedPairs)
        /\ IsPrefix(PairsAtLogs, FixedPairs)
        /\ IsPrefix(ValuesSet("set_time_seconds"), <<1, 2, 5>>)
        /\ exitStatus = 0 => PairsSet = FixedPairs /\ PairsAtLogs = FixedPairs

C3_Witness == SpawnOk /\ exitStatus = 0 /\ Len(PairsAtLogs) = 3

(* ---------- C4 ---------- *)

\* C4: after a successful spawn log_file_from_path is called exactly three
\* times by the time main returns, every time with the path
\* "./example.urdf" and the entity path "my_urdf/urdf".
C4_ThreeLogsSameArguments ==
    SpawnOk =>
        /\ Len(LogCalls) <= 3
        /\ \A k \in 1..Len(LogCalls) :
             /\ LogCalls[k].filepath = "./example.urdf"
             /\ LogCalls[k].entity = "my_urdf/urdf"
        /\ exitStatus = 0 => Len(LogCalls) = 3

C4_Witness ==
    /\ exitStatus = 0
    /\ Len(LogCalls) = 3
    /\ LogCalls[1].filepath = LogCalls[3].filepath

(* ---------- C5 ---------- *)

LogIndex(k) ==
    IF k = 0 THEN 0
    ELSE CHOOSE i \in IndicesOf("log_file_from_path") :
           Cardinality({j \in IndicesOf("log_file_from_path") : j <= i}) = k

\* C6: before the first log call and between every two consecutive log
\* calls there is exactly one set_time_seconds call and exactly one
\* set_time_sequence call, and no log call is made with a marker still at
\* the value it had at the previous log call.
C6_BothMarkersAdvanceBetweenLogs ==
    \A k \in 1..Len(LogCalls) :
        /\ CountBetween("set_time_seconds", LogIndex(k - 1), LogIndex(k)) = 1
        /\ CountBetween("set_time_sequence", LogIndex(k - 1), LogIndex(k)) = 1
        /\ k > 1 => /\ LogCalls[k].time # LogCalls[k - 1].time
                    /\ LogCalls[k].seq # LogCalls[k - 1].seq
        /\ k = 1 => LogCalls[k].time # Unset /\ LogCalls[k].seq # Unset

C6_Witness == Len(LogCalls) = 3 /\ LogIndex(3) > LogIndex(2) + 2

(* ---------- C7 ---------- *)

\* C7: the session is created first and once, the spawn is attempted once,
\* right after it, whatever its result, and every marker-set and log call
\* comes after a spawn that succeeded.
C7_CreateThenSpawnOnce ==
    /\ Len(calls) >= 1 => calls[1].op = "RecordingStream"
    /\ Len(calls) >= 2 => calls[2].op = "spawn"
    /\ Cardinality(IndicesOf("RecordingStream")) <= 1
    /\ Cardinality(IndicesOf("spawn")) <= 1
    /\ Terminated => /\ Cardinality(IndicesOf("RecordingStream")) = 1
                     /\ Cardinality(IndicesOf("spawn")) = 1
    /\ \A i \in 1..Len(calls) :
         calls[i].op \in {"set_time_seconds", "set_time_sequence",
                          "log_file_from_path"}
           => \E j \in 1..(i - 1) : calls[j].op = "spawn" /\ calls[j].res = "ok"

C7_Witness ==
    /\ Terminated
    /\ Len(calls) > 2
    /\ calls[1].op = "RecordingStream"
    /\ calls[2].op = "spawn"

(* ---------- C8 ---------- *)

\* what a call was and what it was given, without what it reported
Signature(c) ==
    IF c.op = "log_file_from_path" THEN <<c.op, c.filepath, c.entity>>
    ELSE IF c.op \in {"set_time_seconds", "set_time_sequence"}
      THEN <<c.op, c.name, c.value>>
    ELSE <<c.op>>

Signatures == [i \in 1..Len(calls) |-> Signature(calls[i])]

\* the calls of an execution in which every call succeeds
AllOkCalls ==
    << <<"RecordingStream">>, <<"spawn">>,
       <<"set_time_seconds", "testtime", 1>>, <<"set_time_sequence", "seq", 1>>,
       <<"log_file_from_path", "./example.urdf", "my_urdf/urdf">>,
       <<"set_time_seconds", "testtime", 2>>, <<"set_time_sequence", "seq", 2>>,
       <<"log_file_from_path", "./example.urdf", "my_urdf/urdf">>,
       <<"set_time_seconds", "testtime", 5>>, <<"set_time_sequence", "seq", 5>>,
       <<"log_file_from_path", "./example.urdf", "my_urdf/urdf">> >>

SomeLogFailed == \E k \in 1..Len(LogCalls) : LogCalls[k].res # "ok"

LastSecondsBefore(i) ==
    CHOOSE j \in IndicesOf("set_time_seconds") :
        /\ j < i
        /\ \A m \in IndicesOf("set_time_seconds") : m < i => m <= j

\* C9: the time values set are strictly ascending, every sequence value
\* set equals the time value set immediately before it, and the two
\* markers agree at every log call.
C9_AscendingAndCorresponding ==
    /\ \A k \in 2..Len(ValuesSet("set_time_seconds")) :
         ValuesSet("set_time_seconds")[k] > ValuesSet("set_time_seconds")[k - 1]
    /\ \A i \in IndicesOf("set_time_sequence") :
         /\ i > 1
         /\ calls[i - 1].op = "set_time_seconds"
         /\ calls[i].value = calls[LastSecondsBefore(i)].value
    /\ \A k \in 1..Len(LogCalls) : LogCalls[k].time = LogCalls[k].seq

C9_Witness ==
    /\ Len(ValuesSet("set_time_seconds")) = 3
    /\ Len(ValuesSet("set_time_sequence")) = 3
    /\ Len(LogCalls) = 3
    /\ LogCalls[3].time = 5

(* ---------- C10 ---------- *)

FatalExit == exitStatus # Running /\ exitStatus # 0 /\ pc = 6 /\ Len(LogCalls) = 0

NormalReturn == exitStatus = 0 /\ pc = 24 /\ Len(LogCalls) = 3

\* no statement of main has made its call twice
NoStepRepeated ==
    \A i, j \in 1..Len(calls) : calls[i].line = calls[j].line => i = j

\* C10: every execution terminates; it ends either in the fatal exit at
\* the spawn with no log call made or in the normal return with status 0
\* after three log calls, never after one or two, and no step is repeated.
C10_TwoFinalStates ==
    /\ <>Terminated
    /\ [](Terminated => (FatalExit /\ ~NormalReturn) \/ (NormalReturn /\ ~FatalExit))
    /\ [](Terminated => Len(LogCalls) \notin {1, 2})
    /\ []NoStepRepeated

C10_Witness == NormalReturn /\ NoStepRepeated /\ Len(calls) = 11

====
